---- MODULE Spec2Model ----
(***************************************************************************)
(* Model of sslyze/plugins/certificate_info_plugin.py: the certinfo plugin *)
(* (CertificateInfoPlugin.process_task, the per trust store handshake task *)
(* _get_and_verify_certificate_chain, CertificateInfoResult.__init__ and   *)
(* the two renderings as_text and as_xml).                                 *)
(***************************************************************************)
EXTENDS Integers, Sequences, FiniteSets, TLC

(***************************************************************************)
(* Values                                                                  *)
(***************************************************************************)
\* Python's None
None == "None"

\* The trust stores. A TrustStore is (path, name, version); a name is kept as
\* its sequence of words so that the substring test of as_xml can be computed.
MozillaStore == [path |-> "mozilla.pem", name |-> <<"Mozilla", "NSS">>, version |-> "09/2016"]
AppleStore == [path |-> "apple.pem", name |-> <<"Apple">>, version |-> "OS X 10.11"]
MicrosoftStore == [path |-> "microsoft.pem", name |-> <<"Microsoft">>, version |-> "09/2016"]
AospStore == [path |-> "aosp.pem", name |-> <<"AOSP">>, version |-> "7.0.0"]

\* How many supplementary stores of the catalog the model scans with
NumSupplementaryStores == 1

SupplementaryCatalog == <<AppleStore, MicrosoftStore, AospStore>>

\* TrustStoresRepository.get_all(): the primary store first, then the others
TrustStoresRepository_get_all == <<MozillaStore>> \o SubSeq(SupplementaryCatalog, 1, NumSupplementaryStores)

\* TrustStoresRepository.get_main()
TrustStoresRepository_get_main == MozillaStore

\* TrustStore(scan_command.custom_ca_file, u'Custom --ca_file', u'N/A')
CustomStore == [path |-> "custom_ca_file", name |-> <<"Custom", "--ca_file">>, version |-> "N/A"]

AllStores == {TrustStoresRepository_get_all[i] : i \in DOMAIN TrustStoresRepository_get_all} \cup {CustomStore}

\* 'Mozilla' in trust_store.name
NameContains(name, word) == \E i \in DOMAIN name : name[i] = word

\* Certificates: subject, issuer and signature algorithm of each
Certs == {"leaf", "int", "int_sha1", "root"}

Subject(c) == CASE c = "leaf" -> "CN=server"
                [] c = "int" -> "CN=Intermediate CA"
                [] c = "int_sha1" -> "CN=Intermediate CA"
                [] c = "root" -> "CN=Root CA"

Issuer(c) == CASE c = "leaf" -> "CN=Intermediate CA"
               [] c = "int" -> "CN=Root CA"
               [] c = "int_sha1" -> "CN=Root CA"
               [] c = "root" -> "CN=Root CA"

SignatureAlgorithm(c) == CASE c = "leaf" -> "sha256WithRSAEncryption"
                           [] c = "int" -> "sha256WithRSAEncryption"
                           [] c = "int_sha1" -> "sha1WithRSAEncryption"
                           [] c = "root" -> "sha1WithRSAEncryption"

\* u"sha1" in cert.as_dict['signatureAlgorithm']
HasSha1(c) == SignatureAlgorithm(c) = "sha1WithRSAEncryption"

\* The anchors of the primary store
MainStoreAnchors == {"root"}

\* The chains a server presents, once parsed
ServerChains == {<<"leaf", "int">>, <<"leaf", "int_sha1">>, <<"leaf", "int", "root">>,
                 <<"int", "leaf">>, <<"leaf", "root", "int">>, <<"leaf">>}

\* ssl_connection.get_peer_cert_chain(): the nassl certificates of the server's
\* chain, objects of the connection made with trust_store, which nothing reads
\* before Certificate.from_nassl() parses them
X509CertChain(trust_store) == <<[x509 |-> "nassl.X509Certificate", connection |-> trust_store.path]>>

\* [Certificate.from_nassl(x509_cert) for x509_cert in certificate_chain], where
\* parsed is what the server's chain holds
FromNassl(x509_chain, parsed) == IF x509_chain = <<>> THEN <<>> ELSE parsed

\* The strings OpenSSL's validation function returns
VerifyStrings == {"ok", "certificate has expired"}

\* An OCSP response stapled to a handshake
Staple == "ocsp_staple"

\* What OcspResponse.verify() does with the primary store's anchors
OcspVerifyOutcomes == {"True", "False", "certificate verify error", "other OpenSSLError"}

\* certificate.matches_hostname(server_info.tls_server_name_indication)
MatchesHostname(c) == CASE c = "leaf" -> "X509_NAME_MATCHES_SAN"
                        [] c = "int" -> "X509_NAME_MISMATCH"
                        [] c = "int_sha1" -> "X509_NAME_MISMATCH"
                        [] c = "root" -> "X509_NAME_MISMATCH"

\* Exceptions a handshake task can end with: the class name and str() of each
ConnectException == "connect_timeout"
RetrieveException == "retrieve_openssl_error"

ExceptionClassName(e) == CASE e = ConnectException -> "timeout"
                           [] e = RetrieveException -> "OpenSSLError"

ExceptionStr(e) == CASE e = None -> "None"
                     [] e = ConnectException -> "timed out"
                     [] e = RetrieveException -> "could not get the peer certificate chain"

(***************************************************************************)
(* PathValidationResult and PathValidationError                            *)
(***************************************************************************)
\* Variant: the verdict compared without regard to case
PathValidationResult_CaseInsensitive(trust_store, verify_string) ==
    [trust_store |-> trust_store,
     verify_string |-> verify_string,
     is_certificate_trusted |-> IF verify_string \in {"ok", "OK", "Ok"} THEN TRUE ELSE FALSE]

PathValidationResult(trust_store, verify_string) ==
    [trust_store |-> trust_store,
     verify_string |-> verify_string,
     is_certificate_trusted |-> IF verify_string = "ok" THEN TRUE ELSE FALSE]

PathValidationError(trust_store, exception) ==
    [trust_store |-> trust_store,
     error_message |-> <<ExceptionClassName(exception), " - ", ExceptionStr(exception)>>]

(***************************************************************************)
(* TrustStore.build_verified_certificate_chain                             *)
(***************************************************************************)
\* The received sequence satisfies the leaf -> root linkage
IsCertificateChainOrderValid(chain) ==
    \A i \in 2..Len(chain) : Subject(chain[i]) = Issuer(chain[i - 1])

\* The positions of the received chain whose issuer is an anchor of the store
AnchoredPositions(anchors, chain) ==
    {i \in DOMAIN chain : \E a \in anchors : Subject(a) = Issuer(chain[i])}

Min(S) == CHOOSE x \in S : \A y \in S : x <= y

AnchorWithSubject(anchors, subject) == CHOOSE a \in anchors : Subject(a) = subject

\* The builder: the chain leaf -> anchor, or one of the two faults
BuildVerifiedCertificateChain(anchors, chain) ==
    IF ~IsCertificateChainOrderValid(chain)
    THEN [fault |-> "InvalidCertificateChainOrderError", chain |-> <<>>]
    ELSE IF AnchoredPositions(anchors, chain) = {}
    THEN [fault |-> "AnchorCertificateNotInTrustStoreError", chain |-> <<>>]
    ELSE LET i == Min(AnchoredPositions(anchors, chain))
         IN [fault |-> None,
             chain |-> Append(SubSeq(chain, 1, i), AnchorWithSubject(anchors, Issuer(chain[i])))]

(***************************************************************************)
(* CertificateInfoResult.__init__                                          *)
(***************************************************************************)
\* str() of a Python bool
Str(b) == IF b THEN "True" ELSE "False"

\* No result object
NoResult == [constructed |-> FALSE]

\* The exception __init__ ends with, None when it runs to its end.
\* verify is what ocsp_response.verify(main_trust_store.path) does.
InitException(certificate_chain, ocsp_response, verify) ==
    IF ocsp_response = None THEN "AttributeError"
    ELSE IF verify \in {"certificate verify error", "other OpenSSLError"} THEN "OpenSSLError"
    ELSE IF certificate_chain = <<>> THEN "IndexError"
    ELSE None

\* self.is_ocsp_response_trusted: what verify() returned, False without a response
IsOcspResponseTrusted(ocsp_response, verify) ==
    IF ocsp_response # None THEN verify ELSE Str(FALSE)

\* Variant: the verified chain initialised with the received chain instead of []
BuiltChain_InitialisedWithReceived(certificate_chain) ==
    LET built == BuildVerifiedCertificateChain(MainStoreAnchors, certificate_chain)
    IN IF built.fault = None THEN built.chain ELSE certificate_chain

\* The try block around build_verified_certificate_chain
BuiltChain(certificate_chain) ==
    LET built == BuildVerifiedCertificateChain(MainStoreAnchors, certificate_chain)
    IN IF built.fault = None THEN built.chain ELSE <<>>

\* Variant: the flag cleared on either fault of the builder
IsCertificateChainOrderValid_field_AnyFault(certificate_chain) ==
    BuildVerifiedCertificateChain(MainStoreAnchors, certificate_chain).fault = None

\* Variant: the two except clauses swapped
IsCertificateChainOrderValid_field_Swapped(certificate_chain) ==
    BuildVerifiedCertificateChain(MainStoreAnchors, certificate_chain).fault
        # "AnchorCertificateNotInTrustStoreError"

\* self.is_certificate_chain_order_valid after the try block
IsCertificateChainOrderValid_field(certificate_chain) ==
    BuildVerifiedCertificateChain(MainStoreAnchors, certificate_chain).fault
        # "InvalidCertificateChainOrderError"

\* The loop that finds the result of the validation with the main trust store:
\* the flag after the first n entries of the list
RECURSIVE IsChainTrustedByMainStoreUpTo(_, _)
IsChainTrustedByMainStoreUpTo(path_validation_result_list, n) ==
    IF n = 0 THEN FALSE
    ELSE IF path_validation_result_list[n].trust_store = TrustStoresRepository_get_main
         THEN path_validation_result_list[n].is_certificate_trusted
         ELSE IsChainTrustedByMainStoreUpTo(path_validation_result_list, n - 1)

\* Variant: the main store's result taken by position, as the first to arrive
IsChainTrustedByMainStore_First(path_validation_result_list) ==
    path_validation_result_list[1].is_certificate_trusted

IsChainTrustedByMainStore(path_validation_result_list) ==
    IsChainTrustedByMainStoreUpTo(path_validation_result_list, Len(path_validation_result_list))

\* Variant: the built chain kept whatever the main store's verdict
VerifiedCertificateChain_NoReconciliation(certificate_chain, path_validation_result_list) ==
    BuiltChain(certificate_chain)

\* self.verified_certificate_chain after the reconciliation with the main store's verdict
VerifiedCertificateChain(certificate_chain, path_validation_result_list) ==
    IF ~IsChainTrustedByMainStore(path_validation_result_list)
    THEN <<>>
    ELSE BuiltChain(certificate_chain)

\* Variant: the leaf of the verified chain looked up instead of its anchor
HasAnchorInCertificateChain_Leaf(verified, certificate_chain) ==
    IF verified # <<>>
    THEN Str(\E i \in DOMAIN certificate_chain : certificate_chain[i] = verified[1])
    ELSE None

\* self.has_anchor_in_certificate_chain
HasAnchorInCertificateChain(verified, certificate_chain) ==
    IF verified # <<>>
    THEN Str(\E i \in DOMAIN certificate_chain : certificate_chain[i] = verified[Len(verified)])
    ELSE None

\* Variant: the anchor examined like the other certificates of the chain
HasSha1InCertificateChain_WithAnchor(verified) ==
    IF verified # <<>>
    THEN Str(\E i \in 1..Len(verified) : HasSha1(verified[i]))
    ELSE None

\* self.has_sha1_in_certificate_chain
HasSha1InCertificateChain(verified) ==
    IF verified # <<>>
    THEN Str(\E i \in 1..(Len(verified) - 1) : HasSha1(verified[i]))
    ELSE None

CertificateInfoResult(certificate_chain, path_validation_result_list, path_validation_error_list, ocsp_response, verify, is_ev) ==
    LET verified == VerifiedCertificateChain(certificate_chain, path_validation_result_list)
    IN [constructed |-> TRUE,
        ocsp_response |-> ocsp_response,
        is_ocsp_response_trusted |-> IsOcspResponseTrusted(ocsp_response, verify),
        certificate_chain |-> certificate_chain,
        is_leaf_certificate_ev |-> is_ev,
        verified_certificate_chain |-> verified,
        is_certificate_chain_order_valid |-> IsCertificateChainOrderValid_field(certificate_chain),
        has_anchor_in_certificate_chain |-> HasAnchorInCertificateChain(verified, certificate_chain),
        path_validation_result_list |-> path_validation_result_list,
        path_validation_error_list |-> path_validation_error_list,
        hostname_validation_result |-> MatchesHostname(certificate_chain[1]),
        has_sha1_in_certificate_chain |-> HasSha1InCertificateChain(verified)]

(***************************************************************************)
(* CertificateInfoResult.as_text                                           *)
(***************************************************************************)
NO_VERIFIED_CHAIN_ERROR_TXT == "ERROR - Could not build verified chain (certificate untrusted?)"

\* TRUST_FORMAT(store_name=..., store_version=...)
TRUST_FORMAT(trust_store) == <<trust_store.name, " CA Store (", trust_store.version, "):">>

\* Variant: the EV text without the test on the trust store
TextEvTxt_AnyStore(r, path_result) ==
    IF r.is_leaf_certificate_ev THEN ", Extended Validation" ELSE ""

\* The ev_txt of a trusted path result
TextEvTxt(r, path_result) ==
    IF r.is_leaf_certificate_ev /\ TrustStoresRepository_get_main = path_result.trust_store
    THEN ", Extended Validation"
    ELSE ""

\* The line of one path result
TextPathLine(r, path_result) ==
    [label |-> TRUST_FORMAT(path_result.trust_store),
     txt |-> IF path_result.is_certificate_trusted
             THEN <<"OK - Certificate is trusted", TextEvTxt(r, path_result)>>
             ELSE <<"FAILED - Certificate is NOT Trusted: ", path_result.verify_string>>]

\* The loop variable path_result, as the first loop leaves it
LastPathResult(r) == r.path_validation_result_list[Len(r.path_validation_result_list)]

\* The line of one path error
TextErrorLine(r, path_error) ==
    [label |-> TRUST_FORMAT(LastPathResult(r).trust_store),
     txt |-> <<"ERROR: ", path_error.error_message>>]

\* cert.printable_subject_name of each certificate of a chain
SubjectNames(chain) == [i \in DOMAIN chain |-> Subject(chain[i])]

TextOcspLines(r) ==
    IF r.ocsp_response = None
    THEN <<"NOT SUPPORTED - Server did not send back an OCSP response.">>
    ELSE <<IF r.is_ocsp_response_trusted = "True" THEN "OK - Response is trusted"
           ELSE "FAILED - Response is NOT trusted">>

NoOutput == [rendered |-> FALSE]

AsText(r) ==
    [rendered |-> TRUE,
     path_lines |-> [i \in DOMAIN r.path_validation_result_list |->
                       TextPathLine(r, r.path_validation_result_list[i])],
     error_lines |-> [i \in DOMAIN r.path_validation_error_list |->
                        TextErrorLine(r, r.path_validation_error_list[i])],
     received_chain |-> SubjectNames(r.certificate_chain),
     verified_chain |-> IF r.verified_certificate_chain # <<>>
                        THEN SubjectNames(r.verified_certificate_chain)
                        ELSE <<NO_VERIFIED_CHAIN_ERROR_TXT>>,
     contains_anchor |-> IF r.verified_certificate_chain # <<>>
                         THEN IF r.has_anchor_in_certificate_chain # "True"
                              THEN "OK - Anchor certificate not sent"
                              ELSE "WARNING - Received certificate chain contains the anchor certificate"
                         ELSE NO_VERIFIED_CHAIN_ERROR_TXT,
     chain_order |-> IF r.is_certificate_chain_order_valid THEN "OK - Order is valid"
                     ELSE "FAILED - Certificate chain out of order!",
     contains_sha1 |-> IF r.verified_certificate_chain # <<>>
                       THEN IF r.has_sha1_in_certificate_chain # "True"
                            THEN "OK - No SHA1-signed certificate in the verified certificate chain"
                            ELSE "INSECURE - SHA1-signed certificate in the verified certificate chain"
                       ELSE NO_VERIFIED_CHAIN_ERROR_TXT,
     ocsp |-> TextOcspLines(r)]

(***************************************************************************)
(* CertificateInfoResult.as_xml                                            *)
(***************************************************************************)
\* Things as_xml only does with the Mozilla store
XmlIsMozilla(path_result) == NameContains(path_result.trust_store.name, "Mozilla")

\* The isExtendedValidationCertificate attribute of a pathValidation element
XmlEvAttribute(r, path_result) ==
    IF XmlIsMozilla(path_result) /\ r.is_leaf_certificate_ev
    THEN Str(r.is_leaf_certificate_ev)
    ELSE None

\* The verifiedCertificateChain element of a pathValidation element
XmlVerifiedChain(r, path_result) ==
    IF XmlIsMozilla(path_result) /\ r.verified_certificate_chain # <<>>
    THEN [present |-> TRUE,
          hasSha1SignedCertificate |-> r.has_sha1_in_certificate_chain,
          certificates |-> r.certificate_chain]
    ELSE [present |-> FALSE, hasSha1SignedCertificate |-> None, certificates |-> <<>>]

XmlPathValidation(r, path_result) ==
    [usingTrustStore |-> path_result.trust_store.name,
     trustStoreVersion |-> path_result.trust_store.version,
     validationResult |-> path_result.verify_string,
     isExtendedValidationCertificate |-> XmlEvAttribute(r, path_result),
     verifiedCertificateChain |-> XmlVerifiedChain(r, path_result)]

XmlPathError(r, path_error) ==
    [usingTrustStore |-> LastPathResult(r).trust_store.name,
     trustStoreVersion |-> LastPathResult(r).trust_store.version,
     error |-> <<"ERROR: ", path_error.error_message>>]

AsXml(r) ==
    [rendered |-> TRUE,
     isChainOrderValid |-> Str(r.is_certificate_chain_order_valid),
     containsAnchorCertificate |-> IF r.verified_certificate_chain # <<>>
                                   THEN IF r.has_anchor_in_certificate_chain # "True"
                                        THEN Str(FALSE) ELSE Str(TRUE)
                                   ELSE None,
     receivedCertificateChain |-> r.certificate_chain,
     pathValidation |-> [i \in DOMAIN r.path_validation_result_list |->
                           XmlPathValidation(r, r.path_validation_result_list[i])],
     pathValidationError |-> [i \in DOMAIN r.path_validation_error_list |->
                                XmlPathError(r, r.path_validation_error_list[i])],
     ocspStapling_isSupported |-> IF r.ocsp_response = None THEN "False" ELSE "True",
     isTrustedByMozillaCAStore |-> IF r.ocsp_response # None
                                   THEN r.is_ocsp_response_trusted ELSE None]

(***************************************************************************)
(* State                                                                   *)
(***************************************************************************)
VARIABLES
    custom_ca_file,               \* scan_command.custom_ca_file is set
    client_cert_requested,        \* the server asks for a client certificate
    pc,                           \* where process_task is
    final_trust_store_list,       \* process_task's list of trust stores
    nb_threads,                   \* the number of threads the pool was started with
    tasks,                        \* the handshake task of each trust store
    result_q,                     \* the thread pool's results, in arrival order
    error_q,                      \* the thread pool's errors, in arrival order
    certificate_chain,            \* locals of process_task
    path_validation_result_list,
    path_validation_error_list,
    ocsp_response,
    last_exception,
    raised,                       \* the exception process_task ended with, <<>> if none
    result,                       \* the CertificateInfoResult returned
    env,                          \* what the collaborators answered to __init__
    text_output,                  \* what as_text() returned
    xml_output                    \* what as_xml() returned

vars == <<custom_ca_file, client_cert_requested, pc, final_trust_store_list, nb_threads, tasks, result_q, error_q,
          certificate_chain, path_validation_result_list, path_validation_error_list,
          ocsp_response, last_exception, raised, result, env, text_output, xml_output>>

locals == <<certificate_chain, path_validation_result_list, path_validation_error_list,
            ocsp_response, last_exception>>

NoReturn == [certificate_chain |-> <<>>, verify_str |-> None, ocsp_response |-> None]

UnusedTask == [pc |-> "unused", conn |-> "none", attempts |-> 0, handshake |-> None, ret |-> NoReturn, exc |-> None]

NoEnv == [verify |-> None, is_ev |-> FALSE, server_chain |-> <<>>]

Range(seq) == {seq[i] : i \in DOMAIN seq}

Init ==
    /\ custom_ca_file \in BOOLEAN
    /\ client_cert_requested \in BOOLEAN
    /\ pc = "start"
    /\ final_trust_store_list = <<>>
    /\ nb_threads = 0
    /\ tasks = [t \in AllStores |-> UnusedTask]
    /\ result_q = <<>>
    /\ error_q = <<>>
    /\ certificate_chain = <<>>
    /\ path_validation_result_list = <<>>
    /\ path_validation_error_list = <<>>
    /\ ocsp_response = None
    /\ last_exception = None
    /\ raised = <<>>
    /\ result = NoResult
    /\ env = NoEnv
    /\ text_output = NoOutput
    /\ xml_output = NoOutput

(***************************************************************************)
(* CertificateInfoPlugin._get_and_verify_certificate_chain, one per store  *)
(***************************************************************************)
\* Variant: no handler for ClientCertificateRequested
HandshakeException_NoHandler(hs) == IF hs = "ok" THEN None ELSE ConnectException

\* The exception connect() leaves unhandled: ClientCertificateRequested is caught
HandshakeException(hs) == IF hs = "error" THEN ConnectException ELSE None

\* get_preconfigured_ssl_connection, set_tlsext_status_ocsp and connect()
Connect(t) ==
    /\ tasks[t].pc = "queued"
    /\ \E hs \in {IF client_cert_requested THEN "ClientCertificateRequested" ELSE "ok", "error"} :
         tasks' = [tasks EXCEPT ![t] =
                     IF HandshakeException(hs) # None
                     THEN [@ EXCEPT !.pc = "finally", !.conn = "open", !.attempts = @ + 1,
                                    !.handshake = hs, !.exc = HandshakeException(hs)]
                     ELSE [@ EXCEPT !.pc = "connected", !.conn = "open", !.attempts = @ + 1,
                                    !.handshake = hs]]
    /\ UNCHANGED <<custom_ca_file, client_cert_requested, pc, final_trust_store_list, nb_threads, result_q, error_q,
                   locals, raised, result, env, text_output, xml_output>>

\* The three retrievals, in the try body or in the ClientCertificateRequested handler
Retrieve(t) ==
    /\ tasks[t].pc = "connected"
    /\ \/ \E verify_str \in VerifyStrings, ocsp \in {None, Staple} :
            tasks' = [tasks EXCEPT ![t] =
                        [@ EXCEPT !.pc = "finally",
                                  !.ret = [certificate_chain |-> X509CertChain(t),
                                           verify_str |-> verify_str,
                                           ocsp_response |-> ocsp]]]
       \/ tasks' = [tasks EXCEPT ![t] = [@ EXCEPT !.pc = "finally", !.exc = RetrieveException]]
    /\ UNCHANGED <<custom_ca_file, client_cert_requested, pc, final_trust_store_list, nb_threads, result_q, error_q,
                   locals, raised, result, env, text_output, xml_output>>

\* Variant: close() only where the task returns normally, without the finally clause
ConnAfterFinally_OnSuccessOnly(task) == IF task.exc = None THEN "closed" ELSE "open"

\* The connection's state after the finally clause
ConnAfterFinally(task) == "closed"

\* finally: ssl_connection.close()
Close(t) ==
    /\ tasks[t].pc = "finally"
    /\ tasks' = [tasks EXCEPT ![t] = [@ EXCEPT !.pc = "closed", !.conn = ConnAfterFinally(tasks[t])]]
    /\ UNCHANGED <<custom_ca_file, client_cert_requested, pc, final_trust_store_list, nb_threads, result_q, error_q,
                   locals, raised, result, env, text_output, xml_output>>

\* The task ends: the pool puts its return value or its exception in a queue
Report(t) ==
    /\ tasks[t].pc = "closed"
    /\ tasks' = [tasks EXCEPT ![t] = [@ EXCEPT !.pc = "done"]]
    /\ IF tasks[t].exc = None
       THEN /\ result_q' = Append(result_q, [job |-> t, result |-> tasks[t].ret])
            /\ UNCHANGED error_q
       ELSE /\ error_q' = Append(error_q, [job |-> t, exception |-> tasks[t].exc])
            /\ UNCHANGED result_q
    /\ UNCHANGED <<custom_ca_file, client_cert_requested, pc, final_trust_store_list, nb_threads,
                   locals, raised, result, env, text_output, xml_output>>

\* Variant: a pool that stops waiting as soon as one thread has finished
AllTasksDone_AnyDone == \E t \in Range(final_trust_store_list) : tasks[t].pc = "done"

\* Every thread of the pool has finished
AllTasksDone == \A t \in Range(final_trust_store_list) : tasks[t].pc = "done"

(***************************************************************************)
(* CertificateInfoPlugin.process_task                                      *)
(***************************************************************************)
FinalTrustStoreList(custom) ==
    IF custom THEN Append(TrustStoresRepository_get_all, CustomStore)
    ELSE TrustStoresRepository_get_all

\* Variant: the pool sized from the catalog, the custom store left out
NbThreads_CatalogOnly(store_list) == Len(TrustStoresRepository_get_all)

\* thread_pool.start(len(final_trust_store_list))
NbThreads(store_list) == Len(store_list)

\* Build the list, add one job per trust store, start one thread per job
Launch ==
    /\ pc = "start"
    /\ final_trust_store_list' = FinalTrustStoreList(custom_ca_file)
    /\ nb_threads' = NbThreads(FinalTrustStoreList(custom_ca_file))
    /\ tasks' = [t \in AllStores |->
                   IF t \in Range(FinalTrustStoreList(custom_ca_file))
                   THEN [UnusedTask EXCEPT !.pc = "queued"]
                   ELSE UnusedTask]
    /\ certificate_chain' = <<>>
    /\ path_validation_result_list' = <<>>
    /\ path_validation_error_list' = <<>>
    /\ ocsp_response' = None
    /\ pc' = "get_result"
    /\ UNCHANGED <<custom_ca_file, client_cert_requested, result_q, error_q, last_exception,
                   raised, result, env, text_output, xml_output>>

\* get_result() has nothing more to yield
ResultsExhausted == result_q = <<>> /\ AllTasksDone

\* get_error() has nothing more to yield
ErrorsExhausted == error_q = <<>> /\ AllTasksDone

\* thread_pool.join() returns
Joined == AllTasksDone

\* Variant: a staple already stored is kept when a later result brings none
OcspResponseAfter_KeepsEarlier(previous, res) ==
    IF res.ocsp_response = None THEN previous ELSE res.ocsp_response

\* ocsp_response after: certificate_chain, validation_result, ocsp_response = result
OcspResponseAfter(previous, res) == res.ocsp_response

\* One iteration of: for (job, result) in thread_pool.get_result()
GetResult ==
    /\ pc = "get_result"
    /\ result_q # <<>>
    /\ LET job == Head(result_q).job
           res == Head(result_q).result
       IN /\ certificate_chain' = res.certificate_chain
          /\ ocsp_response' = OcspResponseAfter(ocsp_response, res)
          /\ path_validation_result_list' =
                Append(path_validation_result_list, PathValidationResult(job, res.verify_str))
    /\ result_q' = Tail(result_q)
    /\ UNCHANGED <<custom_ca_file, client_cert_requested, pc, final_trust_store_list, nb_threads, tasks, error_q,
                   path_validation_error_list, last_exception, raised, result, env, text_output, xml_output>>

\* The loop over get_result() ends; last_exception = None
GetResultEnd ==
    /\ pc = "get_result"
    /\ ResultsExhausted
    /\ last_exception' = None
    /\ pc' = "get_error"
    /\ UNCHANGED <<custom_ca_file, client_cert_requested, final_trust_store_list, nb_threads, tasks, result_q, error_q,
                   certificate_chain, path_validation_result_list, path_validation_error_list,
                   ocsp_response, raised, result, env, text_output, xml_output>>

\* One iteration of: for (job, exception) in thread_pool.get_error()
GetError ==
    /\ pc = "get_error"
    /\ error_q # <<>>
    /\ LET job == Head(error_q).job
           exception == Head(error_q).exception
       IN /\ path_validation_error_list' =
                Append(path_validation_error_list, PathValidationError(job, exception))
          /\ last_exception' = exception
    /\ error_q' = Tail(error_q)
    /\ UNCHANGED <<custom_ca_file, client_cert_requested, pc, final_trust_store_list, nb_threads, tasks, result_q,
                   certificate_chain, path_validation_result_list, ocsp_response,
                   raised, result, env, text_output, xml_output>>

\* The loop over get_error() ends
GetErrorEnd ==
    /\ pc = "get_error"
    /\ ErrorsExhausted
    /\ pc' = "join"
    /\ UNCHANGED <<custom_ca_file, client_cert_requested, final_trust_store_list, nb_threads, tasks, result_q, error_q,
                   locals, raised, result, env, text_output, xml_output>>

\* thread_pool.join()
Join ==
    /\ pc = "join"
    /\ Joined
    /\ pc' = "decide"
    /\ UNCHANGED <<custom_ca_file, client_cert_requested, final_trust_store_list, nb_threads, tasks, result_q, error_q,
                   locals, raised, result, env, text_output, xml_output>>

\* Variant: the comparison off by one, so that total failure is never seen
AllConnectionsFailed_OffByOne(error_list, store_list) == Len(error_list) > Len(store_list)

\* All connections failed
AllConnectionsFailed(error_list, store_list) == Len(error_list) = Len(store_list)

\* The exception raised when all connections failed
CouldNotConnect(exception) ==
    <<"RuntimeError", "Could not connect to the server; last error: ", ExceptionStr(exception)>>

\* raise RuntimeError when all connections failed
RaiseAllFailed ==
    /\ pc = "decide"
    /\ AllConnectionsFailed(path_validation_error_list, final_trust_store_list)
    /\ raised' = CouldNotConnect(last_exception)
    /\ pc' = "raised"
    /\ UNCHANGED <<custom_ca_file, client_cert_requested, final_trust_store_list, nb_threads, tasks, result_q, error_q,
                   locals, result, env, text_output, xml_output>>

\* return CertificateInfoResult(...): __init__ runs to its end or raises
ReturnResult ==
    /\ pc = "decide"
    /\ ~AllConnectionsFailed(path_validation_error_list, final_trust_store_list)
    /\ \E verify \in OcspVerifyOutcomes, is_ev \in BOOLEAN, server_chain \in ServerChains :
         LET exception == InitException(certificate_chain, ocsp_response, verify)
         IN IF exception # None
            THEN /\ env' = [NoEnv EXCEPT !.verify = IF ocsp_response = None THEN None ELSE verify]
                 /\ raised' = <<exception>>
                 /\ pc' = "raised"
                 /\ UNCHANGED result
            ELSE /\ env' = [verify |-> verify, is_ev |-> is_ev, server_chain |-> server_chain]
                 /\ result' = CertificateInfoResult(FromNassl(certificate_chain, server_chain),
                                  path_validation_result_list, path_validation_error_list,
                                  ocsp_response, verify, is_ev)
                 /\ pc' = "returned"
                 /\ UNCHANGED raised
    /\ UNCHANGED <<custom_ca_file, client_cert_requested, final_trust_store_list, nb_threads, tasks, result_q, error_q,
                   locals, text_output, xml_output>>

\* The reporting layer renders the result as text
RenderText ==
    /\ pc = "returned"
    /\ ~text_output.rendered
    /\ text_output' = AsText(result)
    /\ UNCHANGED <<custom_ca_file, client_cert_requested, pc, final_trust_store_list, nb_threads, tasks,
                   result_q, error_q, locals, raised, result, env, xml_output>>

\* The reporting layer renders the result as XML
RenderXml ==
    /\ pc = "returned"
    /\ ~xml_output.rendered
    /\ xml_output' = AsXml(result)
    /\ UNCHANGED <<custom_ca_file, client_cert_requested, pc, final_trust_store_list, nb_threads, tasks,
                   result_q, error_q, locals, raised, result, env, text_output>>

Next ==
    \/ Launch
    \/ \E t \in AllStores : Connect(t)
    \/ \E t \in AllStores : Retrieve(t)
    \/ \E t \in AllStores : Close(t)
    \/ \E t \in AllStores : Report(t)
    \/ GetResult
    \/ GetResultEnd
    \/ GetError
    \/ GetErrorEnd
    \/ Join
    \/ RaiseAllFailed
    \/ ReturnResult
    \/ RenderText
    \/ RenderXml

Spec == Init /\ [][Next]_vars

(***************************************************************************)
(* PathValidationResult.__init__ on its own, over more verify strings      *)
(***************************************************************************)
\* How many path results are constructed
MaxPathResults == 2

\* The verify strings given to the constructor
PathVerifyStrings == {"ok", "OK", "Ok", "ok ", "okay", "o", "",
                      "certificate has expired", "self signed certificate"}

InitPathValidationResult ==
    /\ custom_ca_file = FALSE
    /\ client_cert_requested = FALSE
    /\ pc = "PathValidationResult"
    /\ final_trust_store_list = <<>>
    /\ nb_threads = 0
    /\ tasks = [t \in AllStores |-> UnusedTask]
    /\ result_q = <<>>
    /\ error_q = <<>>
    /\ certificate_chain = <<>>
    /\ path_validation_result_list = <<>>
    /\ path_validation_error_list = <<>>
    /\ ocsp_response = None
    /\ last_exception = None
    /\ raised = <<>>
    /\ result = NoResult
    /\ env = NoEnv
    /\ text_output = NoOutput
    /\ xml_output = NoOutput

\* PathValidationResult(trust_store, verify_string), for a store that has none yet
NewPathValidationResult ==
    /\ pc = "PathValidationResult"
    /\ Len(path_validation_result_list) < MaxPathResults
    /\ \E trust_store \in AllStores, verify_string \in PathVerifyStrings :
         /\ \A i \in DOMAIN path_validation_result_list :
              path_validation_result_list[i].trust_store # trust_store
         /\ path_validation_result_list' =
              Append(path_validation_result_list, PathValidationResult(trust_store, verify_string))
    /\ UNCHANGED <<custom_ca_file, client_cert_requested, pc, final_trust_store_list, nb_threads,
                   tasks, result_q, error_q, certificate_chain, path_validation_error_list,
                   ocsp_response, last_exception, raised, result, env, text_output, xml_output>>

NextPathValidationResult == NewPathValidationResult

SpecPathValidationResult == InitPathValidationResult /\ [][NextPathValidationResult]_vars

(***************************************************************************)
(* Properties                                                              *)
(***************************************************************************)
\* The stores a task was launched for
Launched == Range(final_trust_store_list)

\* process_task has returned or raised
Finished == pc \in {"returned", "raised"}

\* The task of store t has ended with a return value / with an exception
Succeeded(t) == tasks[t].pc = "done" /\ tasks[t].exc = None
Failed(t) == tasks[t].pc = "done" /\ tasks[t].exc # None

\* How many entries of a list of path results or path errors are about store t
Entries(list, t) == Cardinality({i \in DOMAIN list : list[i].trust_store = t})

\* The main store's own task ended with the verdict "ok"
MainStoreTaskTrusted ==
    /\ Succeeded(TrustStoresRepository_get_main)
    /\ tasks[TrustStoresRepository_get_main].ret.verify_str = "ok"

\* The main store's own task ended with a verdict other than "ok"
MainStoreTaskUntrusted ==
    /\ Succeeded(TrustStoresRepository_get_main)
    /\ tasks[TrustStoresRepository_get_main].ret.verify_str # "ok"

\* From certificate c, n hops within the received chain lead to an anchor
RECURSIVE LeadsToAnchor(_, _, _)
LeadsToAnchor(c, chain, n) ==
    \/ \E a \in MainStoreAnchors : Subject(a) = Issuer(c)
    \/ /\ n > 0
       /\ \E i \in DOMAIN chain :
            /\ chain[i] # c
            /\ Subject(chain[i]) = Issuer(c)
            /\ LeadsToAnchor(chain[i], chain, n - 1)

\* The received chain holds a path from the leaf to an anchor of the main store
ContainsPathToAnchor(chain) ==
    \E i \in DOMAIN chain : chain[i] = "leaf" /\ LeadsToAnchor(chain[i], chain, Len(chain))

\* C1: whenever at least one handshake succeeds, process_task returns a result
\* (it does not raise), and each store launched has exactly one entry in the
\* two lists of the result taken together.
C1_OneOutcomePerStore ==
    (Finished /\ \E t \in Launched : Succeeded(t)) =>
        /\ pc = "returned"
        /\ result.constructed
        /\ \A t \in Launched :
             Entries(result.path_validation_result_list, t)
               + Entries(result.path_validation_error_list, t) = 1
        /\ Len(result.path_validation_result_list) + Len(result.path_validation_error_list)
             = Len(final_trust_store_list)

\* C2: when every handshake task fails, process_task raises the connectivity
\* error, builds no result, and the error carries the description of the
\* error that get_error() delivered last.
C2_AllFailedRaises ==
    (Finished /\ \A t \in Launched : Failed(t)) =>
        /\ pc = "raised"
        /\ ~result.constructed
        /\ raised = <<"RuntimeError", "Could not connect to the server; last error: ",
                      path_validation_error_list[Len(path_validation_error_list)].error_message[3]>>

\* C2 witness: all tasks failed, the last error delivered differs from the first
C2_Witness ==
    /\ pc = "raised"
    /\ \A t \in Launched : Failed(t)
    /\ Len(path_validation_error_list) >= 2
    /\ path_validation_error_list[1].error_message
         # path_validation_error_list[Len(path_validation_error_list)].error_message
    /\ raised[1] = "RuntimeError"

\* C3: in every result, when the main store's verdict is not "ok", the verified
\* chain is empty and anchor-included and SHA-1-in-chain are None.
C3_Reconciliation ==
    (result.constructed /\ MainStoreTaskUntrusted) =>
        /\ result.verified_certificate_chain = <<>>
        /\ result.has_anchor_in_certificate_chain = None
        /\ result.has_sha1_in_certificate_chain = None

\* C3 witness: an untrusted main store verdict although the builder links the
\* received chain to an anchor
C3_Witness ==
    /\ result.constructed
    /\ MainStoreTaskUntrusted
    /\ BuildVerifiedCertificateChain(MainStoreAnchors, result.certificate_chain).fault = None
    /\ result.verified_certificate_chain = <<>>

\* C4 as stated: an out-of-order chain that holds a path to an anchor, with a
\* trusted main store verdict, gives order-valid false, a non-empty verified
\* chain and non-None anchor-included and SHA-1-in-chain.
C4_Original ==
    (/\ result.constructed
     /\ ~IsCertificateChainOrderValid(result.certificate_chain)
     /\ ContainsPathToAnchor(result.certificate_chain)
     /\ MainStoreTaskTrusted) =>
        /\ result.is_certificate_chain_order_valid = FALSE
        /\ result.verified_certificate_chain # <<>>
        /\ result.has_anchor_in_certificate_chain # None
        /\ result.has_sha1_in_certificate_chain # None

\* C4 amended: an out-of-order chain gives order-valid false, an empty verified
\* chain and None for anchor-included and SHA-1-in-chain, also when it holds a
\* path to an anchor and the main store's verdict is trusted.
C4_OutOfOrderNoVerifiedChain ==
    (result.constructed /\ ~IsCertificateChainOrderValid(result.certificate_chain)) =>
        /\ result.is_certificate_chain_order_valid = FALSE
        /\ result.verified_certificate_chain = <<>>
        /\ result.has_anchor_in_certificate_chain = None
        /\ result.has_sha1_in_certificate_chain = None

\* C4 witness: out of order, a path to an anchor, a trusted main store verdict
C4_Witness ==
    /\ result.constructed
    /\ ~IsCertificateChainOrderValid(result.certificate_chain)
    /\ ContainsPathToAnchor(result.certificate_chain)
    /\ MainStoreTaskTrusted
    /\ result.is_certificate_chain_order_valid = FALSE

\* C5: when no handshake captured a staple the scan still returns a result and
\* its OCSP trust is None; with a staple, OCSP trust is what verify() returned.
C5_OcspTrustNullWithoutStaple ==
    /\ (/\ Finished
        /\ \E t \in Launched : Succeeded(t)
        /\ \A t \in Launched : Succeeded(t) => tasks[t].ret.ocsp_response = None) =>
           /\ pc = "returned"
           /\ result.constructed
           /\ result.is_ocsp_response_trusted = None
    /\ (result.constructed /\ result.ocsp_response # None) =>
           result.is_ocsp_response_trusted = env.verify

\* C6: a trust-verification error of verify() does not end the scan: the
\* result is built with OCSP trust false and renders as not trusted.
C6_VerifyErrorIsNotTrusted ==
    (Finished /\ ocsp_response # None /\ env.verify = "certificate verify error") =>
        /\ pc = "returned"
        /\ result.constructed
        /\ result.is_ocsp_response_trusted = "False"
        /\ text_output.rendered => text_output.ocsp = <<"FAILED - Response is NOT trusted">>

\* C7: a task that has reported its outcome (or is about to, its finally clause
\* done) has its connection closed, on every exit path.
C7_ClosedBeforeReport ==
    \A t \in AllStores :
        /\ tasks[t].pc \in {"closed", "done"} => tasks[t].conn = "closed"
        /\ (\E i \in DOMAIN result_q : result_q[i].job = t) => tasks[t].conn = "closed"
        /\ (\E i \in DOMAIN error_q : error_q[i].job = t) => tasks[t].conn = "closed"

\* C7 witness: a connect error, a retrieval error and a success after a client
\* certificate request have all been reported
C7_Witness ==
    /\ \E t \in Launched : Failed(t) /\ tasks[t].exc = ConnectException /\ tasks[t].conn = "closed"
    /\ \E t \in Launched : Failed(t) /\ tasks[t].exc = RetrieveException /\ tasks[t].conn = "closed"
    /\ \E t \in Launched : /\ Succeeded(t)
                           /\ tasks[t].handshake = "ClientCertificateRequested"
                           /\ tasks[t].conn = "closed"

\* C8: process_task decides, returns or raises only once every launched task
\* has reported, with every outcome already taken from the queues.
C8_JoinBarrier ==
    pc \in {"decide", "returned", "raised"} =>
        /\ \A t \in Launched : tasks[t].pc = "done"
        /\ result_q = <<>>
        /\ error_q = <<>>
        /\ Len(path_validation_result_list) + Len(path_validation_error_list)
             = Len(final_trust_store_list)

\* C8 witness: the decision is reached with a mix of results and errors
C8_Witness ==
    /\ pc = "decide"
    /\ Len(path_validation_result_list) >= 1
    /\ Len(path_validation_error_list) >= 1

\* C9: verified chain, anchor-included and SHA-1-in-chain of a result depend
\* on the main store's own outcome, wherever it stands in the list of results.
C9_MainStoreByIdentity ==
    result.constructed =>
        LET verified == IF MainStoreTaskTrusted THEN BuiltChain(result.certificate_chain)
                        ELSE <<>>
        IN /\ result.verified_certificate_chain = verified
           /\ result.has_anchor_in_certificate_chain
                = HasAnchorInCertificateChain(verified, result.certificate_chain)
           /\ result.has_sha1_in_certificate_chain = HasSha1InCertificateChain(verified)

\* C9 witness: the main store's result arrived after another store's result
\* that carries the opposite verdict, and a verified chain was built
C9_Witness ==
    /\ result.constructed
    /\ MainStoreTaskTrusted
    /\ result.path_validation_result_list[1].trust_store # TrustStoresRepository_get_main
    /\ ~result.path_validation_result_list[1].is_certificate_trusted
    /\ result.verified_certificate_chain # <<>>

\* C10: no path entry of a store other than the main store is marked Extended
\* Validation, in the text rendering and in the XML rendering.
C10_EvOnlyForMainStore ==
    /\ text_output.rendered =>
         \A i \in DOMAIN text_output.path_lines :
            result.path_validation_result_list[i].trust_store # TrustStoresRepository_get_main
              => text_output.path_lines[i].txt[2] # ", Extended Validation"
    /\ xml_output.rendered =>
         \A i \in DOMAIN xml_output.pathValidation :
            result.path_validation_result_list[i].trust_store # TrustStoresRepository_get_main
              => xml_output.pathValidation[i].isExtendedValidationCertificate = None

\* C10 witness: an EV leaf, a supplementary store that trusts the chain, the
\* main store's entry marked EV, both renderings made
C10_Witness ==
    /\ text_output.rendered
    /\ xml_output.rendered
    /\ result.is_leaf_certificate_ev
    /\ \E i \in DOMAIN result.path_validation_result_list :
         /\ result.path_validation_result_list[i].trust_store # TrustStoresRepository_get_main
         /\ result.path_validation_result_list[i].is_certificate_trusted
    /\ \E i \in DOMAIN result.path_validation_result_list :
         /\ result.path_validation_result_list[i].trust_store = TrustStoresRepository_get_main
         /\ text_output.path_lines[i].txt[2] = ", Extended Validation"
         /\ xml_output.pathValidation[i].isExtendedValidationCertificate = "True"

\* C11: in both renderings every failed path entry is labelled with the name
\* and version of the trust store whose handshake failed.
C11_ErrorLabelledWithOwnStore ==
    /\ text_output.rendered =>
         \A i \in DOMAIN text_output.error_lines :
            text_output.error_lines[i].label
              = <<result.path_validation_error_list[i].trust_store.name, " CA Store (",
                  result.path_validation_error_list[i].trust_store.version, "):">>
    /\ xml_output.rendered =>
         \A i \in DOMAIN xml_output.pathValidationError :
            /\ xml_output.pathValidationError[i].usingTrustStore
                 = result.path_validation_error_list[i].trust_store.name
            /\ xml_output.pathValidationError[i].trustStoreVersion
                 = result.path_validation_error_list[i].trust_store.version

\* C12: with a non-empty verified chain, SHA-1-in-chain is true iff a
\* certificate of the verified chain other than its last one is signed with
\* SHA-1; a chain whose only SHA-1 certificate is the root reports false.
C12_Sha1IgnoresAnchor ==
    (result.constructed /\ result.verified_certificate_chain # <<>>) =>
        LET v == result.verified_certificate_chain
            sha1 == {i \in DOMAIN v : SignatureAlgorithm(v[i]) = "sha1WithRSAEncryption"}
        IN /\ result.has_sha1_in_certificate_chain = "True" <=> sha1 \ {Len(v)} # {}
           /\ result.has_sha1_in_certificate_chain = "False" <=> sha1 \ {Len(v)} = {}
           /\ sha1 = {Len(v)} => result.has_sha1_in_certificate_chain = "False"

\* C12 witness: a verified chain whose only SHA-1 certificate is its anchor
C12_Witness ==
    /\ result.constructed
    /\ result.verified_certificate_chain = <<"leaf", "int", "root">>
    /\ SignatureAlgorithm("root") = "sha1WithRSAEncryption"
    /\ result.has_sha1_in_certificate_chain = "False"

\* C13: anchor-included is None exactly when the verified chain is empty,
\* otherwise it tells whether the verified chain's last certificate is in the
\* received chain; the chain [leaf, intermediate] with a trusted main store
\* verdict gives [leaf, intermediate, root], order valid, anchor not included.
C13_AnchorIncluded ==
    result.constructed =>
        LET v == result.verified_certificate_chain
            received == Range(result.certificate_chain)
        IN /\ result.has_anchor_in_certificate_chain = None <=> v = <<>>
           /\ v # <<>> => (result.has_anchor_in_certificate_chain = "True" <=> v[Len(v)] \in received)
           /\ v # <<>> => (result.has_anchor_in_certificate_chain = "False" <=> v[Len(v)] \notin received)
           /\ (result.certificate_chain = <<"leaf", "int">> /\ MainStoreTaskTrusted) =>
                 /\ v = <<"leaf", "int", "root">>
                 /\ result.is_certificate_chain_order_valid
                 /\ result.has_anchor_in_certificate_chain = "False"

\* C13 witness: the chain [leaf, intermediate], trusted by the main store
C13_Witness ==
    /\ result.constructed
    /\ result.certificate_chain = <<"leaf", "int">>
    /\ MainStoreTaskTrusted
    /\ result.has_anchor_in_certificate_chain = "False"

\* C14: chain-order-valid is false iff the builder signalled an order fault;
\* it is true after an anchor-not-found fault and when the verified chain was
\* discarded; a result is built whenever the builder signalled a fault.
C14_OrderValidIffNoOrderFault ==
    result.constructed =>
        LET fault == BuildVerifiedCertificateChain(MainStoreAnchors, result.certificate_chain).fault
        IN /\ result.is_certificate_chain_order_valid = FALSE
                <=> fault = "InvalidCertificateChainOrderError"
           /\ fault = "AnchorCertificateNotInTrustStoreError"
                => result.is_certificate_chain_order_valid = TRUE
           /\ (fault = None /\ ~MainStoreTaskTrusted)
                => result.is_certificate_chain_order_valid = TRUE

\* C14 witness: a result built after the builder signalled anchor-not-found
C14_Witness ==
    /\ result.constructed
    /\ BuildVerifiedCertificateChain(MainStoreAnchors, result.certificate_chain).fault
         = "AnchorCertificateNotInTrustStoreError"
    /\ result.is_certificate_chain_order_valid = TRUE
    /\ result.verified_certificate_chain = <<>>

\* C15: a non-empty verified chain starts with the leaf of the received chain,
\* each certificate is followed by its issuer, the last one is an anchor of the
\* main store, and the main store's own verdict was trusted.
C15_VerifiedChainInvariant ==
    (result.constructed /\ result.verified_certificate_chain # <<>>) =>
        LET v == result.verified_certificate_chain
        IN /\ v[1] = result.certificate_chain[1]
           /\ \A i \in 1..(Len(v) - 1) : Subject(v[i + 1]) = Issuer(v[i])
           /\ v[Len(v)] \in MainStoreAnchors
           /\ MainStoreTaskTrusted

\* C15 witness: a verified chain of three certificates
C15_Witness ==
    /\ result.constructed
    /\ Len(result.verified_certificate_chain) = 3
    /\ MainStoreTaskTrusted

\* C16: a task whose handshake was interrupted by the server's client
\* certificate request, and whose retrievals did not fail, ends with a return
\* value: its store gets a path result with its verdict, never a path error.
C16_ClientCertRequestedIsSuccess ==
    \A t \in Launched :
        (/\ tasks[t].handshake = "ClientCertificateRequested"
         /\ tasks[t].pc = "done"
         /\ tasks[t].exc # RetrieveException) =>
            /\ tasks[t].exc = None
            /\ tasks[t].ret.certificate_chain # <<>>
            /\ tasks[t].ret.verify_str \in VerifyStrings
            /\ tasks[t].ret.ocsp_response \in {None, Staple}
            /\ \/ \E i \in DOMAIN result_q : result_q[i] = [job |-> t, result |-> tasks[t].ret]
               \/ \E i \in DOMAIN path_validation_result_list :
                    /\ path_validation_result_list[i].trust_store = t
                    /\ path_validation_result_list[i].verify_string = tasks[t].ret.verify_str
            /\ \A i \in DOMAIN error_q : error_q[i].job # t
            /\ Entries(path_validation_error_list, t) = 0

\* C16 witness: after a client certificate request, a store's path result
\* with a verdict and a staple has been stored
C16_Witness ==
    \E t \in Launched :
        /\ tasks[t].handshake = "ClientCertificateRequested"
        /\ tasks[t].pc = "done"
        /\ tasks[t].ret.ocsp_response = Staple
        /\ \E i \in DOMAIN path_validation_result_list :
             /\ path_validation_result_list[i].trust_store = t
             /\ path_validation_result_list[i].verify_string = "certificate has expired"

\* C17: on normal return the received chain and the staple of the result are
\* those one and the same successful task retrieved; the chain is not the
\* initial empty one and the staple is not absent.
C17_ChainAndStapleFromOneTask ==
    pc = "returned" =>
        /\ \E t \in Launched :
             /\ Succeeded(t)
             /\ certificate_chain = tasks[t].ret.certificate_chain
             /\ result.certificate_chain = FromNassl(tasks[t].ret.certificate_chain, env.server_chain)
             /\ result.ocsp_response = tasks[t].ret.ocsp_response
        /\ result.certificate_chain # <<>>
        /\ result.ocsp_response # None

\* C17 witness: two tasks succeeded, one with a staple and one without, and
\* the result holds the staple
C17_Witness ==
    /\ pc = "returned"
    /\ \E t \in Launched : Succeeded(t) /\ tasks[t].ret.ocsp_response = None
    /\ \E t \in Launched : Succeeded(t) /\ tasks[t].ret.ocsp_response = Staple
    /\ result.ocsp_response = Staple

\* C18: the list is the catalog's stores plus the custom store when a custom CA
\* file is set, without repetition; the pool gets as many threads as stores;
\* each store's handshake is attempted at most once, and exactly once by the
\* time process_task ends.
C18_OneAttemptPerStore ==
    /\ \A t \in AllStores : tasks[t].attempts <= 1
    /\ \A t \in AllStores \ Launched : tasks[t].attempts = 0 /\ tasks[t].pc = "unused"
    /\ pc # "start" =>
         /\ SubSeq(final_trust_store_list, 1, Len(TrustStoresRepository_get_all))
              = TrustStoresRepository_get_all
         /\ Len(final_trust_store_list)
              = Len(TrustStoresRepository_get_all) + (IF custom_ca_file THEN 1 ELSE 0)
         /\ custom_ca_file => final_trust_store_list[Len(final_trust_store_list)] = CustomStore
         /\ Cardinality(Launched) = Len(final_trust_store_list)
         /\ nb_threads = Len(final_trust_store_list)
    /\ Finished => \A t \in Launched : tasks[t].attempts = 1

\* C18 witness: a scan with a custom store has ended, a failed store among its stores
C18_Witness ==
    /\ Finished
    /\ custom_ca_file
    /\ nb_threads = Len(TrustStoresRepository_get_all) + 1
    /\ \E t \in Launched : Failed(t) /\ tasks[t].attempts = 1
    /\ \E t \in Launched : Succeeded(t) /\ tasks[t].attempts = 1

\* C20: when the main store's own task ends in an error and another store's
\* task succeeds, process_task returns a result whose verified chain is empty,
\* whose anchor-included and SHA-1-in-chain are None, and whose order flag
\* tells only whether the builder signalled an order fault.
C20_MainStoreErrorIsUntrusted ==
    (/\ Finished
     /\ Failed(TrustStoresRepository_get_main)
     /\ \E t \in Launched : Succeeded(t)) =>
        /\ pc = "returned"
        /\ result.constructed
        /\ result.verified_certificate_chain = <<>>
        /\ result.has_anchor_in_certificate_chain = None
        /\ result.has_sha1_in_certificate_chain = None
        /\ result.is_certificate_chain_order_valid
             = IsCertificateChainOrderValid(result.certificate_chain)

\* C19: a path result is trusted iff its verify string is exactly "ok"; a case
\* variant, a prefix, a longer string or another message gives untrusted, and
\* the flag depends on the verify string alone.
C19_TrustedIffOk ==
    \A i \in DOMAIN path_validation_result_list :
        LET r == path_validation_result_list[i]
        IN /\ r.is_certificate_trusted <=> r.verify_string = "ok"
           /\ r.verify_string \in {"OK", "Ok", "ok ", "okay", "o", "", "certificate has expired",
                                   "self signed certificate"} => ~r.is_certificate_trusted
           /\ \A j \in DOMAIN path_validation_result_list :
                path_validation_result_list[j].verify_string = r.verify_string
                  => path_validation_result_list[j].is_certificate_trusted = r.is_certificate_trusted

\* C19 witness: "ok" trusted for one store next to the case variant "OK"
\* untrusted for another
C19_Witness ==
    /\ pc = "PathValidationResult"
    /\ Len(path_validation_result_list) = 2
    /\ path_validation_result_list[1].verify_string = "OK"
    /\ ~path_validation_result_list[1].is_certificate_trusted
    /\ path_validation_result_list[2].verify_string = "ok"
    /\ path_validation_result_list[2].is_certificate_trusted

\* C21: once as_xml has rendered a result whose verified chain is non-empty,
\* a verifiedCertificateChain element is present and every such element lists
\* exactly the certificates of the result's verified chain, in order.
C21_XmlListsVerifiedChain ==
    (pc = "returned" /\ xml_output.rendered /\ result.verified_certificate_chain # <<>>)
      => /\ \E i \in DOMAIN xml_output.pathValidation :
              xml_output.pathValidation[i].verifiedCertificateChain.present
         /\ \A i \in DOMAIN xml_output.pathValidation :
              xml_output.pathValidation[i].verifiedCertificateChain.present
                => xml_output.pathValidation[i].verifiedCertificateChain.certificates
                     = result.verified_certificate_chain

\* C22: once both renderings of a result exist, a path entry is marked
\* Extended Validation by as_text exactly when as_xml marks it.
C22_TextAndXmlAgreeOnEv ==
    (pc = "returned" /\ text_output.rendered /\ xml_output.rendered)
      => \A i \in DOMAIN result.path_validation_result_list :
            (text_output.path_lines[i].txt[2] = ", Extended Validation")
              <=> (xml_output.pathValidation[i].isExtendedValidationCertificate # None)

====
